---- MODULE Spec2Model ----
(***************************************************************************)
(* A model of video_vintage.py: the light-leak state machine               *)
(* (LightLeakManager), the array primitives (noise, chromatic aberration,  *)
(* jitter), the filter selection of get_user_inputs / __main__ and the     *)
(* per-frame pipeline process_frame.                                       *)
(*                                                                         *)
(* Python floats are IEEE-754 doubles.  Every opacity the manager can hold *)
(* is a multiple of 2^-58 below 2, so a double is modelled exactly as a    *)
(* pair <<hi, lo>> standing for (hi * 2^29 + lo) * 2^-58, 0 <= lo < 2^29   *)
(* (hi carries the sign), and + and - round to nearest, ties to even, at   *)
(* the precision of the result's binade, as the hardware does.             *)
(***************************************************************************)
EXTENDS Integers, Sequences, FiniteSets, TLC

VARIABLES
    \* LightLeakManager fields
    leaks,              \* len(self.leaks): number of leak images loaded
    active_leak_idx,
    opacity,            \* a double, <<hi, lo>>
    state,              \* 'idle', 'fade_in', 'active', 'fade_out'
    duration_counter,
    \* the last LightLeakManager.apply call: its argument and what it returned
    arg,
    ret,
    \* observations of the running leak cycle
    drawn,              \* the hold duration drawn when fade_in completed
    activeCalls,        \* apply calls made in 'active' since that draw
    peakFrames,         \* frames returned at the peak opacity since that draw
    sinceStart,         \* apply calls made since the call that left 'idle'
    \* __main__
    pc,
    choice,             \* the raw line typed at the filter prompt
    config,
    selected_filter,
    leak_manager,       \* TRUE once a LightLeakManager was constructed
    frames,             \* frames handed to process_frame so far
    out,                \* the stages process_frame applied to the last frame
    applyCalls,         \* the frame numbers leak_manager.apply was called with
    \* the last call of an array primitive
    fx

leakVars == <<leaks, active_leak_idx, opacity, state, duration_counter>>
callVars == <<arg, ret>>
obsVars == <<drawn, activeCalls, peakFrames, sinceStart>>
mainVars == <<pc, choice, config, selected_filter, leak_manager, frames, out, applyCalls>>
vars == <<leakVars, callVars, obsVars, mainVars, fx>>

Min(a, b) == IF a <= b THEN a ELSE b

-----------------------------------------------------------------------------
(* IEEE-754 double arithmetic on the range the manager uses.               *)

Limb == 2^29

DNorm(hi, lo) == <<hi + (lo \div Limb), lo % Limb>>

DNeg(a) == IF a[2] = 0 THEN <<-a[1], 0>> ELSE <<-a[1] - 1, Limb - a[2]>>

DLt(a, b) == a[1] < b[1] \/ (a[1] = b[1] /\ a[2] < b[2])

DLe(a, b) == a = b \/ DLt(a, b)

\* Units of 2^-58 between neighbouring doubles in the binade of a >= 0.
Quantum(a) ==
    IF a[1] >= 2^29 THEN 64
    ELSE IF a[1] >= 2^28 THEN 32
    ELSE IF a[1] >= 2^27 THEN 16
    ELSE IF a[1] >= 2^26 THEN 8
    ELSE IF a[1] >= 2^25 THEN 4
    ELSE IF a[1] >= 2^24 THEN 2
    ELSE 1

\* Round a >= 0 to the nearest double, ties to the even significand.
RoundPos(a) ==
    LET q == Quantum(a)
        r == a[2] % q
        down == <<a[1], a[2] - r>>
        up == DNorm(a[1], a[2] - r + q)
    IN  IF 2 * r < q THEN down
        ELSE IF 2 * r > q THEN up
        ELSE IF (a[2] \div q) % 2 = 0 THEN down ELSE up

Round(a) == IF a[1] < 0 THEN DNeg(RoundPos(DNeg(a))) ELSE RoundPos(a)

FAdd(a, b) == Round(DNorm(a[1] + b[1], a[2] + b[2]))

FSub(a, b) == FAdd(a, DNeg(b))

\* The float literals of LightLeakManager, as doubles.
Zero == <<0, 0>>
FadeInStep == <<26843545, 322122548>>       \* 0.05
FadeOutStep == <<16106127, 193273528>>      \* 0.03
MaxOpacity == <<429496729, 322122560>>      \* 0.8
\* 0.01 lies strictly between two multiples of 2^-58; this is the lower one,
\* so x > 0.01 is DLt(VisibleFloor, x) for every x the model holds.
VisibleFloor == <<5368709, 64424509>>

Phases == {"idle", "fade_in", "active", "fade_out"}

-----------------------------------------------------------------------------
(* Frames.  Outside the array primitives a frame is the record of how it   *)
(* was made: the source frame's number followed by the stages applied to   *)
(* it, each with its parameters.  Two frames are the same array contents   *)
(* exactly when these records are equal.                                   *)

Stage(op, a, b, c) == [op |-> op, a |-> a, b |-> b, c |-> c]

Src(n) == <<Stage("src", n, 0, 0)>>

\* np.clip(frame + leak * opacity, 0, 255).astype(np.uint8), a new array
Blend(frame_arr, idx, o) == Append(frame_arr, Stage("leak", idx, o[1], o[2]))

-----------------------------------------------------------------------------
(* LightLeakManager                                                        *)

MaxSample == 5
HoldMin == 10
HoldMax == 30
\* random.randint(10, 30), and a variant drawing from one more value
HoldDurationsWide == HoldMin .. (HoldMax + 1)
HoldDurations == HoldMin .. HoldMax

\* __init__: `found` files match the globs, min(5, found) are sampled, and
\* `failed` of the sampled ones raise while loading; the rest are appended.
Sampled(found) == Min(MaxSample, found)

Loaded(found, failed) == IF found = 0 THEN 0 ELSE Sampled(found) - failed

Manager(st, op, idx, dc) ==
    [state |-> st, opacity |-> op, active_leak_idx |-> idx, duration_counter |-> dc]

NewManager == Manager("idle", Zero, -1, 0)

\* The four branches of apply's state machine, on the manager's fields m.
\* idle
Idle(m, trigger, idx) ==
    IF trigger
    THEN [m EXCEPT !.state = "fade_in", !.active_leak_idx = idx, !.opacity = Zero]
    ELSE m

\* fade_in, and two variants: one going straight to fade_out, one clamping
\* the opacity to 0.8
FadeInSkipsHold(m, d) ==
    LET o == FAdd(m.opacity, FadeInStep)
    IN  IF DLe(MaxOpacity, o)
        THEN [m EXCEPT !.opacity = o, !.state = "fade_out", !.duration_counter = d]
        ELSE [m EXCEPT !.opacity = o]
FadeInClamped(m, d) ==
    LET o == FAdd(m.opacity, FadeInStep)
    IN  IF DLe(MaxOpacity, o)
        THEN [m EXCEPT !.opacity = MaxOpacity, !.state = "active", !.duration_counter = d]
        ELSE [m EXCEPT !.opacity = o]
FadeIn(m, d) ==
    LET o == FAdd(m.opacity, FadeInStep)
    IN  IF DLe(MaxOpacity, o)
        THEN [m EXCEPT !.opacity = o, !.state = "active", !.duration_counter = d]
        ELSE [m EXCEPT !.opacity = o]

\* active, and a variant holding for one call more
ActiveOffByOne(m) ==
    LET c == m.duration_counter - 1
    IN  IF c < 0
        THEN [m EXCEPT !.duration_counter = c, !.state = "fade_out"]
        ELSE [m EXCEPT !.duration_counter = c]
Active(m) ==
    LET c == m.duration_counter - 1
    IN  IF c <= 0
        THEN [m EXCEPT !.duration_counter = c, !.state = "fade_out"]
        ELSE [m EXCEPT !.duration_counter = c]

\* fade_out, and a variant that does not reset the opacity to 0.0
FadeOutNoReset(m) ==
    LET o == FSub(m.opacity, FadeOutStep)
    IN  IF DLe(o, Zero)
        THEN [m EXCEPT !.opacity = o, !.state = "idle"]
        ELSE [m EXCEPT !.opacity = o]
FadeOut(m) ==
    LET o == FSub(m.opacity, FadeOutStep)
    IN  IF DLe(o, Zero)
        THEN [m EXCEPT !.opacity = Zero, !.state = "idle"]
        ELSE [m EXCEPT !.opacity = o]

\* apply's if / elif chain: exactly one branch runs per call.
StateMachine(m, trigger, idx, d) ==
    CASE m.state = "idle" -> Idle(m, trigger, idx)
      [] m.state = "fade_in" -> FadeIn(m, d)
      [] m.state = "active" -> Active(m)
      [] m.state = "fade_out" -> FadeOut(m)

\* apply, for a manager with n leaks whose fields are m: the fields after the
\* call and the array returned (frame_arr itself unless the leak is visible).
\* AlwaysBlend is a variant without the two early returns.
AlwaysBlend(n, m, frame_arr, trigger, idx, d) ==
    LET m2 == IF n = 0 THEN m ELSE StateMachine(m, trigger, idx, d)
    IN  [m |-> m2, ret |-> Blend(frame_arr, m2.active_leak_idx, m2.opacity)]
ApplyResult(n, m, frame_arr, trigger, idx, d) ==
    IF n = 0
    THEN [m |-> m, ret |-> frame_arr]
    ELSE LET m2 == StateMachine(m, trigger, idx, d)
         IN  [m |-> m2,
              ret |-> IF DLt(VisibleFloor, m2.opacity)
                      THEN Blend(frame_arr, m2.active_leak_idx, m2.opacity)
                      ELSE frame_arr]

Self == Manager(state, opacity, active_leak_idx, duration_counter)

SetSelf(m) ==
    /\ state' = m.state
    /\ opacity' = m.opacity
    /\ active_leak_idx' = m.active_leak_idx
    /\ duration_counter' = m.duration_counter
    /\ UNCHANGED leaks

\* The values the random calls of one apply can return, <<random() < 0.02,
\* randint(0, len(self.leaks) - 1), randint(10, 30)>>; a call that is not
\* made in the manager's present state is given one fixed value.
Draws ==
    IF leaks > 0 /\ state = "idle"
    THEN {<<FALSE, 0, HoldMin>>} \cup {<<TRUE, i, HoldMin>> : i \in 0 .. (leaks - 1)}
    ELSE IF leaks > 0 /\ state = "fade_in" /\ DLe(MaxOpacity, FAdd(opacity, FadeInStep))
    THEN {<<FALSE, 0, d>> : d \in HoldDurations}
    ELSE {<<FALSE, 0, HoldMin>>}

MaxFound == 6
NumSources == 2

\* What one apply call adds to the observations of the running cycle.
Observe(m2) ==
    /\ sinceStart' = IF state = "idle"
                     THEN (IF m2.state = "idle" THEN sinceStart ELSE 0)
                     ELSE sinceStart + 1
    /\ drawn' = IF state = "fade_in" /\ m2.state # "fade_in" THEN m2.duration_counter
                ELSE IF state = "idle" /\ m2.state # "idle" THEN 0
                ELSE drawn
    /\ activeCalls' = IF state = "active" THEN activeCalls + 1
                      ELSE IF state \in {"idle", "fade_in"} /\ m2.state # "idle" THEN 0
                      ELSE activeCalls
    /\ peakFrames' = IF state = "fade_in" /\ m2.state # "fade_in" THEN 1
                     ELSE IF state = "active" /\ m2.opacity = opacity THEN peakFrames + 1
                     ELSE IF state = "idle" /\ m2.state # "idle" THEN 0
                     ELSE peakFrames

MainIdle ==
    /\ pc = "off"
    /\ choice = <<>>
    /\ config = [filter_name |-> "", enable_aberration |-> FALSE,
                 enable_jitter |-> FALSE, enable_leaks |-> FALSE]
    /\ selected_filter = ""
    /\ leak_manager = FALSE
    /\ frames = 0
    /\ out = <<>>
    /\ applyCalls = <<>>

NoCall == [fn |-> "none"]

\* LightLeakManager(leaks_dir, video_size)
Init ==
    /\ \E found \in 0 .. MaxFound : \E failed \in 0 .. Sampled(found) :
          leaks = Loaded(found, failed)
    /\ state = NewManager.state
    /\ opacity = NewManager.opacity
    /\ active_leak_idx = NewManager.active_leak_idx
    /\ duration_counter = NewManager.duration_counter
    /\ arg = <<>>
    /\ ret = <<>>
    /\ drawn = 0 /\ activeCalls = 0 /\ peakFrames = 0 /\ sinceStart = 0
    /\ MainIdle
    /\ fx = NoCall

\* leak_manager.apply(frame_arr)
Apply ==
    \E n \in 1 .. NumSources, w \in Draws :
        LET r == ApplyResult(leaks, Self, Src(n), w[1], w[2], w[3])
        IN  /\ SetSelf(r.m)
            /\ arg' = Src(n)
            /\ ret' = r.ret
            /\ Observe(r.m)
            /\ UNCHANGED <<mainVars, fx>>

Next == Apply

Spec == Init /\ [][Next]_vars

-----------------------------------------------------------------------------
(* The array primitives, on real arrays: arr[r][c] is the pixel <<R, G, B>> *)
(* of row r and column c (both from 0, as in numpy).  A call is recorded   *)
(* as what numpy makes observable: the array returned, the contents of the *)
(* caller's array after the call, and whether the two are the same object. *)

FrameH == 2
FrameW == 3
MaxShift == 2
MaxAmount == 1

Rows == 0 .. (FrameH - 1)
Cols == 0 .. (FrameW - 1)
Palette == {<<0, 0, 0>>, <<255, 128, 1>>}
Frames == [Rows -> [Cols -> Palette]]

\* np.roll(arr, shift, axis=1) and np.roll(arr, shift, axis=0): new arrays
RollCols(arr, shift) == [r \in Rows |-> [c \in Cols |-> arr[r][(c - shift) % FrameW]]]
RollRows(arr, shift) == [r \in Rows |-> arr[(r - shift) % FrameH]]

Clip(x) == IF x < 0 THEN 0 ELSE IF x > 255 THEN 255 ELSE x

Call(fn, arr, param, result, after, same, draws) ==
    [fn |-> fn, arg |-> arr, param |-> param, ret |-> result,
     argAfter |-> after, alias |-> same, draws |-> draws]

\* add_noise_vectorized(arr, amount), noise being the array randint returned
add_noise_vectorized(arr, amount, noise) ==
    IF amount <= 0
    THEN Call("add_noise_vectorized", arr, amount, arr, arr, TRUE, 0)
    ELSE LET sum == [r \in Rows |-> [c \in Cols |->
                       <<Clip(arr[r][c][1] + noise[r][c][1]),
                         Clip(arr[r][c][2] + noise[r][c][2]),
                         Clip(arr[r][c][3] + noise[r][c][3])>>]]
         IN  Call("add_noise_vectorized", arr, amount, sum, arr, FALSE, 1)

\* apply_chromatic_aberration(arr, shift_amount): both channel assignments
\* write into arr itself, and arr is what is returned.
apply_chromatic_aberration(arr, shift_amount) ==
    IF shift_amount = 0
    THEN Call("apply_chromatic_aberration", arr, shift_amount, arr, arr, TRUE, 0)
    ELSE LET red == RollCols(arr, -shift_amount)
             blue == RollCols(arr, shift_amount)
             written == [r \in Rows |-> [c \in Cols |->
                           <<red[r][c][1], arr[r][c][2], blue[r][c][3]>>]]
         IN  Call("apply_chromatic_aberration", arr, shift_amount, written, written, TRUE, 0)

\* apply_jitter(arr, max_shift), dx and dy being what random.randint returned,
\* and a variant without the early return for max_shift 0
JitterWithoutEarlyReturn(arr, max_shift, dx, dy) ==
    Call("apply_jitter", arr, max_shift, RollRows(RollCols(arr, dx), dy), arr, FALSE, 2)
apply_jitter(arr, max_shift, dx, dy) ==
    IF max_shift = 0
    THEN Call("apply_jitter", arr, max_shift, arr, arr, TRUE, 0)
    ELSE Call("apply_jitter", arr, max_shift, RollRows(RollCols(arr, dx), dy), arr, FALSE, 2)

\* The noise arrays the model draws: np.random.randint draws every channel of
\* every pixel on its own; here one triple in [-amount, amount]^3 is drawn
\* and used for every pixel.
NoiseArrays(amount) ==
    IF amount <= 0 THEN {[r \in Rows |-> [c \in Cols |-> <<0, 0, 0>>]]}
    ELSE {[r \in Rows |-> [c \in Cols |-> t]] :
            t \in (-amount .. amount) \X (-amount .. amount) \X (-amount .. amount)}

InitFx ==
    /\ leaks = 0
    /\ state = NewManager.state
    /\ opacity = NewManager.opacity
    /\ active_leak_idx = NewManager.active_leak_idx
    /\ duration_counter = NewManager.duration_counter
    /\ arg = <<>>
    /\ ret = <<>>
    /\ drawn = 0 /\ activeCalls = 0 /\ peakFrames = 0 /\ sinceStart = 0
    /\ MainIdle
    /\ \E arr \in Frames : fx = [fn |-> "pending", arg |-> arr]

\* Each behaviour is one call of one primitive on the array Init drew.
CallNoise ==
    /\ fx.fn = "pending"
    /\ \E amount \in -1 .. MaxAmount : \E noise \in NoiseArrays(amount) :
          fx' = add_noise_vectorized(fx.arg, amount, noise)
    /\ UNCHANGED <<leakVars, callVars, obsVars, mainVars>>

CallAberration ==
    /\ fx.fn = "pending"
    /\ \E shift_amount \in -MaxShift .. MaxShift :
          fx' = apply_chromatic_aberration(fx.arg, shift_amount)
    /\ UNCHANGED <<leakVars, callVars, obsVars, mainVars>>

CallJitter ==
    /\ fx.fn = "pending"
    /\ \E max_shift \in 0 .. MaxShift :
          \E dx \in -max_shift .. max_shift, dy \in -max_shift .. max_shift :
              fx' = apply_jitter(fx.arg, max_shift, dx, dy)
    /\ UNCHANGED <<leakVars, callVars, obsVars, mainVars>>

NextFx == CallNoise \/ CallAberration \/ CallJitter

SpecFx == InitFx /\ [][NextFx]_vars

-----------------------------------------------------------------------------
(* get_user_inputs, the set-up in __main__ and process_frame.              *)

MaxChoiceLen == 2
MaxFrames == 3
AberrationShift == 2
JitterMaxShift == 1

Chars == {" ", "1", "2", "3", "4", "5", "9"}
RawChoices == UNION {[1 .. n -> Chars] : n \in 0 .. MaxChoiceLen}

\* str.strip()
RECURSIVE strip(_)
strip(str) ==
    IF str = <<>> THEN str
    ELSE IF Head(str) = " " THEN strip(Tail(str))
    ELSE IF str[Len(str)] = " " THEN strip(SubSeq(str, 1, Len(str) - 1))
    ELSE str

filters ==
    (<<"1">> :> "modern_fuji_sim") @@ (<<"2">> :> "terracotta_sun_sim") @@
    (<<"3">> :> "portra_800_sim") @@ (<<"4">> :> "reala_ace_sim") @@
    (<<"5">> :> "dreamy_negative_sim")

DefaultFilter == "dreamy_negative_sim"

filter_funcs ==
    ("modern_fuji_sim" :> "apply_filter_modern_fuji_sim") @@
    ("terracotta_sun_sim" :> "apply_filter_terracotta_sun_sim") @@
    ("portra_800_sim" :> "apply_filter_portra_800_sim") @@
    ("reala_ace_sim" :> "apply_filter_reala_ace_sim") @@
    ("dreamy_negative_sim" :> "apply_filter_dreamy_negative_sim")

\* filters.get(choice, "dreamy_negative_sim") on the stripped line, and a
\* variant looking the key up without a default
FilterNameNoDefault(raw) ==
    LET key == strip(raw) IN IF key \in DOMAIN filters THEN filters[key] ELSE "unknown"
FilterName(raw) ==
    LET key == strip(raw) IN IF key \in DOMAIN filters THEN filters[key] ELSE DefaultFilter

\* process_frame up to the leak manager: the filter, the overlay, then the
\* enabled effects, each on the array the stage before it produced; and a
\* variant with the two effects in the other order.
JitterBeforeAberration(frame, filter, cfg, dx, dy) ==
    LET img == Append(Append(frame, Stage(filter, 0, 0, 0)), Stage("overlay", 0, 0, 0))
        arr1 == IF cfg.enable_jitter
                THEN Append(img, Stage("apply_jitter", JitterMaxShift, dx, dy))
                ELSE img
    IN  IF cfg.enable_aberration
        THEN Append(arr1, Stage("apply_chromatic_aberration", AberrationShift, 0, 0))
        ELSE arr1
Effects(frame, filter, cfg, dx, dy) ==
    LET img == Append(Append(frame, Stage(filter, 0, 0, 0)), Stage("overlay", 0, 0, 0))
        arr1 == IF cfg.enable_aberration
                THEN Append(img, Stage("apply_chromatic_aberration", AberrationShift, 0, 0))
                ELSE img
    IN  IF cfg.enable_jitter
        THEN Append(arr1, Stage("apply_jitter", JitterMaxShift, dx, dy))
        ELSE arr1

InitMain ==
    /\ leaks = 0
    /\ state = NewManager.state
    /\ opacity = NewManager.opacity
    /\ active_leak_idx = NewManager.active_leak_idx
    /\ duration_counter = NewManager.duration_counter
    /\ arg = <<>>
    /\ ret = <<>>
    /\ drawn = 0 /\ activeCalls = 0 /\ peakFrames = 0 /\ sinceStart = 0
    /\ pc = "prompt"
    /\ choice = <<>>
    /\ config = [filter_name |-> "", enable_aberration |-> FALSE,
                 enable_jitter |-> FALSE, enable_leaks |-> FALSE]
    /\ selected_filter = ""
    /\ leak_manager = FALSE
    /\ frames = 0
    /\ out = <<>>
    /\ applyCalls = <<>>
    /\ fx = NoCall

\* config = get_user_inputs()
GetUserInputs ==
    /\ pc = "prompt"
    /\ \E raw \in RawChoices, ab \in BOOLEAN, ji \in BOOLEAN, le \in BOOLEAN :
          /\ choice' = raw
          /\ config' = [filter_name |-> FilterName(raw), enable_aberration |-> ab,
                        enable_jitter |-> ji, enable_leaks |-> le]
    /\ pc' = "configured"
    /\ UNCHANGED <<leakVars, callVars, obsVars, selected_filter, leak_manager,
                   frames, out, applyCalls, fx>>

\* selected_filter = filter_funcs[config["filter_name"]] (a KeyError ends the
\* run in the handler of line 503), then the leak manager if enabled.
Setup ==
    /\ pc = "configured"
    /\ IF config.filter_name \in DOMAIN filter_funcs
       THEN /\ selected_filter' = filter_funcs[config.filter_name]
            /\ pc' = "running"
            /\ leak_manager' = config.enable_leaks
            /\ IF config.enable_leaks
               THEN \E found \in 0 .. MaxFound : \E failed \in 0 .. Sampled(found) :
                        leaks' = Loaded(found, failed)
               ELSE UNCHANGED leaks
       ELSE /\ pc' = "failed"
            /\ UNCHANGED <<selected_filter, leak_manager, leaks>>
    /\ choice' = <<>>
    /\ UNCHANGED <<active_leak_idx, opacity, state, duration_counter, callVars,
                   obsVars, config, frames, out, applyCalls, fx>>

\* What random.randint(-1, 1) can return in apply_jitter; one fixed value
\* when jitter is disabled and the call is not made.
JitterDraws == IF config.enable_jitter THEN -JitterMaxShift .. JitterMaxShift ELSE {0}

\* process_frame(frame), frame being the next frame of the clip
ProcessFrame ==
    /\ pc = "running"
    /\ frames < MaxFrames
    /\ \E dx \in JitterDraws, dy \in JitterDraws, w \in Draws :
          LET arr == Effects(Src(frames + 1), selected_filter, config, dx, dy)
              r == IF leak_manager
                   THEN ApplyResult(leaks, Self, arr, w[1], w[2], w[3])
                   ELSE [m |-> Self, ret |-> arr]
          IN  /\ out' = r.ret
              /\ SetSelf(r.m)
              /\ applyCalls' = IF leak_manager THEN Append(applyCalls, frames + 1)
                               ELSE applyCalls
    /\ frames' = frames + 1
    /\ UNCHANGED <<callVars, obsVars, pc, choice, config, selected_filter, leak_manager, fx>>

NextMain == GetUserInputs \/ Setup \/ ProcessFrame

SpecMain == InitMain /\ [][NextMain]_vars

-----------------------------------------------------------------------------
(* Properties of the light-leak state machine, checked under Spec.         *)

\* The double that follows 0.8: 0.8 + 2^-52 = 0.8000000000000002.
AboveMaxOpacity == DNorm(MaxOpacity[1], MaxOpacity[2] + 32)

\* C1, as claimed: the opacity is exactly 0 whenever the phase is idle and
\* lies in [0, 0.8] whenever the phase is fade_in, active or fade_out.
C1_OpacityWithinMax ==
    /\ state = "idle" => opacity = Zero
    /\ state # "idle" => DLe(Zero, opacity) /\ DLe(opacity, MaxOpacity)

\* C1, amended: the opacity is exactly 0 whenever the phase is idle and lies
\* in [0, 0.8000000000000002] otherwise: sixteen rounded additions of 0.05
\* overshoot 0.8 by one unit in the last place and fade_in does not clamp.
C1_OpacityBounded ==
    /\ state = "idle" => opacity = Zero
    /\ state # "idle" => DLe(Zero, opacity) /\ DLe(opacity, AboveMaxOpacity)

\* A leak is being held at an opacity above 0.8.
C1_Witness == state = "active" /\ DLt(MaxOpacity, opacity)

CycleEdges ==
    {<<"idle", "fade_in">>, <<"fade_in", "active">>,
     <<"active", "fade_out">>, <<"fade_out", "idle">>}

\* C2: with at least one leak loaded, one apply call leaves the phase as it
\* is or moves it along exactly one edge of idle -> fade_in -> active ->
\* fade_out -> idle.
C2_PhaseCycle ==
    [][leaks > 0 => (state' = state \/ <<state, state'>> \in CycleEdges)]_vars

\* A manager with leaks has gone once round the cycle, through every edge.
C2_Witness == leaks > 0 /\ state = "idle" /\ active_leak_idx >= 0 /\ activeCalls = HoldMin

\* C3: a call made in idle leaves the opacity 0; a call made in fade_in adds
\* 0.05 (a double addition) and leaves fade_in exactly when the sum is >= 0.8;
\* a call made in fade_out subtracts 0.03, except that a difference <= 0 is
\* replaced by 0 and the phase returns to idle.
C3_StepSizes ==
    [][/\ state = "idle" => opacity = Zero /\ opacity' = Zero
       /\ state = "fade_in" =>
            /\ opacity' = FAdd(opacity, FadeInStep)
            /\ DLt(opacity, opacity')
            /\ (state' # "fade_in") <=> DLe(MaxOpacity, opacity')
       /\ state = "fade_out" =>
            LET o == FSub(opacity, FadeOutStep)
            IN  /\ DLt(o, opacity)
                /\ IF DLe(o, Zero)
                   THEN opacity' = Zero /\ state' = "idle"
                   ELSE opacity' = o /\ state' = "fade_out"]_vars

\* A whole cycle has run: the leak faded in, was held and faded out to idle.
C3_Witness == state = "idle" /\ opacity = Zero /\ drawn > 0 /\ sinceStart = 43 + drawn

\* C4, as claimed: when the hold ends, exactly d apply calls were made in the
\* active phase and exactly d frames were processed at the peak opacity.
C4_PeakFramesEqualDrawn ==
    state = "fade_out" => activeCalls = drawn /\ peakFrames = drawn

\* C4, amended: the opacity is unchanged by every call made in the active
\* phase, exactly d calls are made in it, and d + 1 frames are processed at
\* the peak opacity before the first fade_out decrement: the frame of the
\* call that completed fade_in and the d frames of the active phase.
C4_HoldDuration ==
    /\ [][state = "active" => opacity' = opacity]_vars
    /\ [](state = "active" => /\ drawn \in HoldMin .. HoldMax
                              /\ duration_counter = drawn - activeCalls
                              /\ peakFrames = activeCalls + 1)
    /\ [](state = "fade_out" => /\ drawn \in HoldMin .. HoldMax
                                /\ activeCalls = drawn
                                /\ peakFrames = drawn + 1)

\* The longest hold has just ended and no fade_out decrement was made yet.
C4_Witness ==
    state = "fade_out" /\ opacity = AboveMaxOpacity /\ drawn = HoldMax /\ activeCalls = HoldMax

\* C6: a manager that loaded no leak keeps its initial fields (idle, 0, -1,
\* 0) and every apply call returns the array it was given.
C6_InertWithoutLeaks ==
    leaks = 0 =>
        /\ state = "idle" /\ opacity = Zero
        /\ active_leak_idx = -1 /\ duration_counter = 0
        /\ ret = arg

\* apply was called on a manager without leaks.
C6_Witness == leaks = 0 /\ arg # <<>> /\ ret = arg

\* C10: once apply has moved the phase from idle to fade_in, the phase is
\* back in idle with opacity 0 after at most 73 further calls: 16 in
\* fade_in, the drawn 10 to 30 in active, 27 in fade_out.
C10_LeakEnds ==
    /\ state = "fade_in" => sinceStart <= 15
    /\ state = "active" => sinceStart = 16 + activeCalls /\ activeCalls < drawn
    /\ state = "fade_out" => sinceStart <= 16 + drawn + 26
    /\ state # "idle" => sinceStart <= 72
    /\ state = "idle" => opacity = Zero /\ sinceStart <= 73

\* The longest cycle has ended, 73 calls after the one that started it.
C10_Witness == state = "idle" /\ sinceStart = 73 /\ drawn = HoldMax

-----------------------------------------------------------------------------
(* Properties of process_frame and of the filter selection, checked under  *)
(* SpecMain.                                                               *)

Ops(frame) == [i \in 1 .. Len(frame) |-> frame[i].op]

\* C5: process_frame applies, to each frame in arrival order, the selected
\* grade transform, the overlay, chromatic aberration with shift 2 if
\* enabled, jitter with max_shift 1 if enabled, and the leak manager if
\* enabled, each on the output of the stage before; with leaks enabled
\* apply is called exactly once per frame, in arrival order, and never
\* otherwise.
C5_StageOrder ==
    (pc = "running" /\ frames > 0) =>
        LET ab == IF config.enable_aberration
                  THEN <<"apply_chromatic_aberration">> ELSE <<>>
            ji == IF config.enable_jitter THEN <<"apply_jitter">> ELSE <<>>
            fixed == <<"src", selected_filter, "overlay">> \o ab \o ji
            blended == config.enable_leaks /\ leaks > 0 /\ DLt(VisibleFloor, opacity)
        IN  /\ out[1] = Stage("src", frames, 0, 0)
            /\ Ops(out) = IF blended THEN fixed \o <<"leak">> ELSE fixed
            /\ \A i \in 1 .. Len(out) :
                  /\ out[i].op = "apply_chromatic_aberration" => out[i].a = 2
                  /\ out[i].op = "apply_jitter" =>
                        out[i].a = 1 /\ out[i].b \in -1 .. 1 /\ out[i].c \in -1 .. 1
                  /\ out[i].op = "leak" =>
                        out[i] = Stage("leak", active_leak_idx, opacity[1], opacity[2])
            /\ applyCalls = IF config.enable_leaks THEN [i \in 1 .. frames |-> i] ELSE <<>>

\* A frame went through all five stages and came out with a visible leak.
C5_Witness ==
    /\ pc = "running" /\ frames = 2
    /\ config.enable_aberration /\ config.enable_jitter /\ config.enable_leaks
    /\ Len(out) = 6 /\ out[6].op = "leak" /\ applyCalls = <<1, 2>>

FiveVariants ==
    {"modern_fuji_sim", "terracotta_sun_sim", "portra_800_sim", "reala_ace_sim",
     "dreamy_negative_sim"}

\* C8: whatever is typed at the filter prompt, the run does not fail on it:
\* the filter name is one of the five variants, a selection that is none of
\* "1" .. "5" (after stripping) resolves to dreamy_negative_sim, and the
\* filter dispatched is that variant's function.
C8_UnknownFilterFallsBack ==
    /\ pc # "failed"
    /\ pc = "configured" =>
          /\ config.filter_name \in FiveVariants
          /\ strip(choice) \notin {<<"1">>, <<"2">>, <<"3">>, <<"4">>, <<"5">>}
                => config.filter_name = "dreamy_negative_sim"
          /\ strip(choice) = <<"1">> => config.filter_name = "modern_fuji_sim"
          /\ strip(choice) = <<"2">> => config.filter_name = "terracotta_sun_sim"
          /\ strip(choice) = <<"3">> => config.filter_name = "portra_800_sim"
          /\ strip(choice) = <<"4">> => config.filter_name = "reala_ace_sim"
          /\ strip(choice) = <<"5">> => config.filter_name = "dreamy_negative_sim"
    /\ pc = "running" =>
          /\ config.filter_name \in FiveVariants
          /\ selected_filter = filter_funcs[config.filter_name]
          /\ selected_filter \in {filter_funcs[v] : v \in FiveVariants}

\* An unrecognised selection was typed and resolved to the default variant.
C8_Witness ==
    pc = "configured" /\ choice = <<"9", " ">> /\ config.filter_name = "dreamy_negative_sim"

-----------------------------------------------------------------------------
(* Properties of the array primitives, checked under SpecFx.               *)

Called == fx.fn \in {"add_noise_vectorized", "apply_chromatic_aberration", "apply_jitter"}

\* C7, as claimed, in what it says of the input: every effect stage leaves
\* the array it was given unchanged, so no stage's output overwrites its
\* input.  (The claim adds that the array returned is a new one; the calls
\* with fx.alias = TRUE are those that return the argument itself.)
C7_InputLeftUnchanged == Called => fx.argAfter = fx.arg

\* C9: with a zero parameter each primitive returns an array equal to its
\* input pixel for pixel and leaves the input as it was, and apply_jitter
\* with max_shift 0 makes no random draw.
C9_ZeroIsIdentity ==
    (Called /\ fx.param = 0) =>
        /\ fx.ret = fx.arg
        /\ fx.argAfter = fx.arg
        /\ fx.fn = "apply_jitter" => fx.draws = 0

\* apply_jitter was called with max_shift 0 on a frame that is not uniform.
C9_Witness ==
    /\ Called /\ fx.fn = "apply_jitter" /\ fx.param = 0
    /\ fx.arg[0][0] # fx.arg[0][1]

====
